---- MODULE Spec2Model ----
(***************************************************************************)
(* CPC daemon, UART driver (src/driver/driver_uart.c).                     *)
(*                                                                         *)
(* The driver thread multiplexes two descriptors: the UART (ingress:       *)
(* bytes -> delimited frames -> core socket) and the core socket (egress:  *)
(* one datagram -> paced write on the UART).                               *)
(*                                                                         *)
(* hdlc.h and crc.h are not part of the sources at hand: the header        *)
(* layout and the checksum are modelled from the written specification     *)
(* as [marker][payload length][header checksum], one byte each, the        *)
(* checksum being the exclusive-or of the bytes it covers.                 *)
(***************************************************************************)
EXTENDS Integers, Sequences, FiniteSets

(***************************************************************************)
(* Bounds of the exploration.                                              *)
(***************************************************************************)
\* Stands for the literal 4096 of UART_BUFFER_SIZE: the largest payload.
MAX_PAYLOAD == 4
\* Total number of bytes read from the link in one behaviour (Spec).
MaxStream == 7
\* The same, when the link delivers markers and zeroes only (SpecLong).
LongStream == 10
\* The same, in one behaviour of the whole driver (SpecDriver).
DriverMaxStream == 2
\* Datagrams the core sends in one behaviour of the whole driver.
MaxCoreMsgs == 2
\* Total number of bytes read from the link in one behaviour in which
\* every turn of the handler's loop is a step (SpecLoop).
LoopStream == 6

(***************************************************************************)
(* Frame codec (hdlc.h, crc.h).                                            *)
(***************************************************************************)
SLI_CPC_HDLC_FLAG_POS == 0
SLI_CPC_HDLC_LENGTH_POS == 1
SLI_CPC_HDLC_HCS_POS == 2
SLI_CPC_HDLC_FLAG_VAL == 20
\* Number of header bytes the header checksum covers.
SLI_CPC_HDLC_HEADER_SIZE == 2
\* Size of the header on the wire, checksum included.
SLI_CPC_HDLC_HEADER_RAW_SIZE == 3

UART_BUFFER_SIZE == MAX_PAYLOAD + SLI_CPC_HDLC_HEADER_RAW_SIZE

\* Byte values the link delivers: the marker, two small lengths, and their
\* checksums (the set is closed under the checksum, so every length has a
\* valid header).  20 and 21, read as lengths, exceed MAX_PAYLOAD.
Byte == {0, 1, 20, 21}

\* The marker and zero alone: enough for noise, for the frame without
\* payload and for a header that announces more than MAX_PAYLOAD.
MarkerOrZero == {0, 20}

EXPECTING_HEADER == "EXPECTING_HEADER"
EXPECTING_PAYLOAD == "EXPECTING_PAYLOAD"

VARIABLES
  buffer,       \* process_uart: bytes [0, buffer_head) of static buffer[]
  buffer_head,  \* process_uart: static size_t buffer_head
  state,        \* process_uart: static enum state
  core_rx,      \* datagrams written to fd_core, oldest first; each is
                \* [bytes, start], start (history) its offset in rxlog
  pc,           \* position of the driver thread
  rxlog,        \* history: every byte read from fd_uart, in order
  fate,         \* history: "F"/"D" for each consumed byte of rxlog
  n_reads,      \* history: successful link reads so far: 0, 1, or 2 for more
  empty_reads,  \* history: parity of the link reads that read no byte
  entry,        \* history, kept while pc = "loop": the state the handler
                \* was entered with, the buffer as its read left it, and
                \* the number of frames written before
  core_tx,      \* datagrams the core has sent, not yet read from fd_core
  msg,          \* process_core: buffer[0 .. read_retval)
  bytes_remaining, \* process_core: int bytes_remaining
  tx_queue,     \* bytes written to fd_uart and not yet transmitted
  uart_tx,      \* what each write(fd_uart) put on the link, oldest first
  core_read_log, \* history: the datagrams read from fd_core, in order
  polled,       \* history: the last depth TIOCOUTQ returned in this
                \* invocation of process_core, -1 when it has returned none
  idle_gap,     \* history: microseconds slept since the last TIOCOUTQ
                \* once the drain loop is left, 0 when not yet
  drained,      \* history: the drain loop has slept in this invocation
  drain_turn,   \* history: parity of the turns of the drain loop so far
  last_fault,   \* history: the last system call that did not do what the
                \* thread asked for, "none" when every call did
  wake          \* history: the last return of epoll_wait with events:
                \* the sources readable then, and those it reported

ingress_vars ==
  <<buffer, buffer_head, state, core_rx, rxlog, fate, n_reads, empty_reads,
    entry>>

egress_vars == <<core_tx, msg, bytes_remaining, tx_queue, uart_tx,
                 core_read_log, polled, idle_gap, drained, drain_turn>>

dispatch_vars == <<last_fault, wake>>

vars == <<ingress_vars, egress_vars, dispatch_vars, pc>>

(***************************************************************************)
(* Helpers.                                                                *)
(***************************************************************************)
MinOf(S) == CHOOSE x \in S : \A y \in S : x <= y

RECURSIVE Xor(_, _)
Xor(a, b) ==
  IF a = 0 /\ b = 0 THEN 0
  ELSE (((a % 2) + (b % 2)) % 2) + (2 * Xor(a \div 2, b \div 2))

\* n copies of x
Rep(x, n) == [j \in 1..n |-> x]

(***************************************************************************)
(* The accumulation buffer.  The code reads buffer[] only below            *)
(* *buffer_head (header_re_synch: windows [i, i + raw size) with           *)
(* i + raw size <= head; delimit_and_push_frames_to_core: [0, frame_size)  *)
(* with frame_size <= head), so the model keeps that part of the array: a  *)
(* sequence whose element j + 1 is buffer[j].                              *)
(***************************************************************************)
\* buf[i], i a C offset
At(buf, i) == buf[i + 1]

\* bytes [from, from + n) of buf
Slice(buf, from, n) == [j \in 1..n |-> buf[from + j]]

\* the first n bytes of buf: the array seen through a head of n
Take(buf, n) == [j \in 1..n |-> buf[j]]

\* Mutant of memmove: the source taken one byte too far.
memmove_off_by_one(buf, dst, src, n) ==
  [j \in DOMAIN buf |->
     IF dst < j /\ j <= dst + n /\ (src + 1 + (j - dst)) \in DOMAIN buf
     THEN buf[src + 1 + (j - dst)] ELSE buf[j]]

\* memmove(&buf[dst], &buf[src], n)
memmove(buf, dst, src, n) ==
  [j \in DOMAIN buf |->
     IF dst < j /\ j <= dst + n /\ (src + (j - dst)) \in DOMAIN buf
     THEN buf[src + (j - dst)] ELSE buf[j]]

\* memcpy(&buf[head], data, n), buf holding head bytes
memcpy(buf, data, n) == buf \o Take(data, n)

(***************************************************************************)
(* Codec functions.                                                        *)
(***************************************************************************)
hdlc_get_hcs(buf, i) == At(buf, i + SLI_CPC_HDLC_HCS_POS)

hdlc_get_length(buf, i) == At(buf, i + SLI_CPC_HDLC_LENGTH_POS)

RECURSIVE sli_cpc_get_crc_sw(_, _, _)
sli_cpc_get_crc_sw(buf, i, n) ==
  IF n = 0 THEN 0
  ELSE Xor(sli_cpc_get_crc_sw(buf, i, n - 1), At(buf, i + n - 1))

sli_cpc_validate_crc_sw(buf, i, n, expected) ==
  sli_cpc_get_crc_sw(buf, i, n) = expected

(***************************************************************************)
(* Ingress.                                                                *)
(***************************************************************************)
\* Mutant of validate_header: the marker alone decides.
validate_header_flag_only(buf, i) ==
  At(buf, i + SLI_CPC_HDLC_FLAG_POS) = SLI_CPC_HDLC_FLAG_VAL

validate_header(buf, i) ==
  IF At(buf, i + SLI_CPC_HDLC_FLAG_POS) # SLI_CPC_HDLC_FLAG_VAL THEN FALSE
  ELSE IF ~sli_cpc_validate_crc_sw(buf, i, SLI_CPC_HDLC_HEADER_SIZE,
                                   hdlc_get_hcs(buf, i)) THEN FALSE
  ELSE TRUE

\* Mutant of header_re_synch: the loop stops one window early.
header_re_synch_skips_last_window(buf, head) ==
  IF head < SLI_CPC_HDLC_HEADER_RAW_SIZE
  THEN [ret |-> FALSE, buffer |-> buf, head |-> head]
  ELSE
    LET num_header_combination == head - SLI_CPC_HDLC_HEADER_RAW_SIZE + 1
        hits == {i \in 0..(num_header_combination - 2) : validate_header(buf, i)}
    IN IF hits # {}
       THEN LET i == MinOf(hits)
            IN IF i = 0
               THEN [ret |-> TRUE, buffer |-> buf, head |-> head]
               ELSE [ret |-> TRUE,
                     buffer |-> Take(memmove(buf, 0, i, head - i), head - i),
                     head |-> head - i]
       ELSE [ret |-> FALSE,
             buffer |-> Take(memmove(buf, 0, num_header_combination,
                                     SLI_CPC_HDLC_HEADER_RAW_SIZE - 1),
                             SLI_CPC_HDLC_HEADER_RAW_SIZE - 1),
             head |-> SLI_CPC_HDLC_HEADER_RAW_SIZE - 1]

\* Mutant of header_re_synch: a failed pass empties the buffer.
header_re_synch_keeps_nothing(buf, head) ==
  IF head < SLI_CPC_HDLC_HEADER_RAW_SIZE
  THEN [ret |-> FALSE, buffer |-> buf, head |-> head]
  ELSE
    LET num_header_combination == head - SLI_CPC_HDLC_HEADER_RAW_SIZE + 1
        hits == {i \in 0..(num_header_combination - 1) : validate_header(buf, i)}
    IN IF hits # {}
       THEN LET i == MinOf(hits)
            IN IF i = 0
               THEN [ret |-> TRUE, buffer |-> buf, head |-> head]
               ELSE [ret |-> TRUE,
                     buffer |-> Take(memmove(buf, 0, i, head - i), head - i),
                     head |-> head - i]
       ELSE [ret |-> FALSE, buffer |-> <<>>, head |-> 0]

\* Mutant of header_re_synch: a failed pass leaves the buffer as it is.
header_re_synch_no_compaction(buf, head) ==
  IF head < SLI_CPC_HDLC_HEADER_RAW_SIZE
  THEN [ret |-> FALSE, buffer |-> buf, head |-> head]
  ELSE
    LET num_header_combination == head - SLI_CPC_HDLC_HEADER_RAW_SIZE + 1
        hits == {i \in 0..(num_header_combination - 1) : validate_header(buf, i)}
    IN IF hits # {}
       THEN LET i == MinOf(hits)
            IN IF i = 0
               THEN [ret |-> TRUE, buffer |-> buf, head |-> head]
               ELSE [ret |-> TRUE,
                     buffer |-> Take(memmove(buf, 0, i, head - i), head - i),
                     head |-> head - i]
       ELSE [ret |-> FALSE, buffer |-> buf, head |-> head]

\* Mutant of header_re_synch: the bytes before the header found are not
\* moved out.
header_re_synch_no_realign(buf, head) ==
  IF head < SLI_CPC_HDLC_HEADER_RAW_SIZE
  THEN [ret |-> FALSE, buffer |-> buf, head |-> head]
  ELSE
    LET num_header_combination == head - SLI_CPC_HDLC_HEADER_RAW_SIZE + 1
        hits == {i \in 0..(num_header_combination - 1) : validate_header(buf, i)}
    IN IF hits # {}
       THEN [ret |-> TRUE, buffer |-> buf, head |-> head]
       ELSE [ret |-> FALSE,
             buffer |-> Take(memmove(buf, 0, num_header_combination,
                                     SLI_CPC_HDLC_HEADER_RAW_SIZE - 1),
                             SLI_CPC_HDLC_HEADER_RAW_SIZE - 1),
             head |-> SLI_CPC_HDLC_HEADER_RAW_SIZE - 1]

\* Result: ret, and the buffer and *buffer_head as the call leaves them.
header_re_synch(buf, head) ==
  IF head < SLI_CPC_HDLC_HEADER_RAW_SIZE
  THEN [ret |-> FALSE, buffer |-> buf, head |-> head]
  ELSE
    LET num_header_combination == head - SLI_CPC_HDLC_HEADER_RAW_SIZE + 1
        hits == {i \in 0..(num_header_combination - 1) : validate_header(buf, i)}
    IN IF hits # {}
       THEN LET i == MinOf(hits)
            IN IF i = 0
               THEN [ret |-> TRUE, buffer |-> buf, head |-> head]
               ELSE [ret |-> TRUE,
                     buffer |-> Take(memmove(buf, 0, i, head - i), head - i),
                     head |-> head - i]
       ELSE [ret |-> FALSE,
             buffer |-> Take(memmove(buf, 0, num_header_combination,
                                     SLI_CPC_HDLC_HEADER_RAW_SIZE - 1),
                             SLI_CPC_HDLC_HEADER_RAW_SIZE - 1),
             head |-> SLI_CPC_HDLC_HEADER_RAW_SIZE - 1]

\* Mutant of delimit_and_push_frames_to_core: the frame size computed with
\* the size of the checksummed part of the header.
delimit_and_push_frames_to_core_short_header(buf, head, write_ok) ==
  IF head < SLI_CPC_HDLC_HEADER_RAW_SIZE
  THEN [ret |-> FALSE, fatal |-> FALSE, frame |-> <<>>,
        buffer |-> buf, head |-> head]
  ELSE
    LET payload_len == hdlc_get_length(buf, 0)
        frame_size == payload_len + SLI_CPC_HDLC_HEADER_SIZE
    IN IF frame_size > head
       THEN [ret |-> FALSE, fatal |-> FALSE, frame |-> <<>>,
             buffer |-> buf, head |-> head]
       ELSE IF ~write_ok
       THEN [ret |-> FALSE, fatal |-> TRUE, frame |-> <<>>,
             buffer |-> buf, head |-> head]
       ELSE LET remaining_bytes == head - frame_size
            IN [ret |-> TRUE, fatal |-> FALSE,
                frame |-> Slice(buf, 0, frame_size),
                buffer |-> Take(memmove(buf, 0, frame_size, remaining_bytes),
                                remaining_bytes),
                head |-> remaining_bytes]

\* Mutant of delimit_and_push_frames_to_core: what follows the frame is
\* not moved back, the buffer is reset.
delimit_and_push_frames_to_core_drops_rest(buf, head, write_ok) ==
  IF head < SLI_CPC_HDLC_HEADER_RAW_SIZE
  THEN [ret |-> FALSE, fatal |-> FALSE, frame |-> <<>>,
        buffer |-> buf, head |-> head]
  ELSE
    LET payload_len == hdlc_get_length(buf, 0)
        frame_size == payload_len + SLI_CPC_HDLC_HEADER_RAW_SIZE
    IN IF frame_size > head
       THEN [ret |-> FALSE, fatal |-> FALSE, frame |-> <<>>,
             buffer |-> buf, head |-> head]
       ELSE IF ~write_ok
       THEN [ret |-> FALSE, fatal |-> TRUE, frame |-> <<>>,
             buffer |-> buf, head |-> head]
       ELSE [ret |-> TRUE, fatal |-> FALSE,
             frame |-> Slice(buf, 0, frame_size),
             buffer |-> <<>>, head |-> 0]

\* Mutant of delimit_and_push_frames_to_core: the frame is written and
\* the buffer left as it was, *buffer_head not adjusted.
delimit_and_push_frames_to_core_keeps_frame(buf, head, write_ok) ==
  IF head < SLI_CPC_HDLC_HEADER_RAW_SIZE
  THEN [ret |-> FALSE, fatal |-> FALSE, frame |-> <<>>,
        buffer |-> buf, head |-> head]
  ELSE
    LET payload_len == hdlc_get_length(buf, 0)
        frame_size == payload_len + SLI_CPC_HDLC_HEADER_RAW_SIZE
    IN IF frame_size > head
       THEN [ret |-> FALSE, fatal |-> FALSE, frame |-> <<>>,
             buffer |-> buf, head |-> head]
       ELSE IF ~write_ok
       THEN [ret |-> FALSE, fatal |-> TRUE, frame |-> <<>>,
             buffer |-> buf, head |-> head]
       ELSE [ret |-> TRUE, fatal |-> FALSE,
             frame |-> Slice(buf, 0, frame_size),
             buffer |-> buf, head |-> head]

\* Mutant of delimit_and_push_frames_to_core: short of a whole frame, the
\* caller is told to go on.
delimit_and_push_frames_to_core_premature(buf, head, write_ok) ==
  IF head < SLI_CPC_HDLC_HEADER_RAW_SIZE
  THEN [ret |-> FALSE, fatal |-> FALSE, frame |-> <<>>,
        buffer |-> buf, head |-> head]
  ELSE
    LET payload_len == hdlc_get_length(buf, 0)
        frame_size == payload_len + SLI_CPC_HDLC_HEADER_RAW_SIZE
    IN IF frame_size > head
       THEN [ret |-> TRUE, fatal |-> FALSE, frame |-> <<>>,
             buffer |-> buf, head |-> head]
       ELSE IF ~write_ok
       THEN [ret |-> FALSE, fatal |-> TRUE, frame |-> <<>>,
             buffer |-> buf, head |-> head]
       ELSE LET remaining_bytes == head - frame_size
            IN [ret |-> TRUE, fatal |-> FALSE,
                frame |-> Slice(buf, 0, frame_size),
                buffer |-> Take(memmove(buf, 0, frame_size, remaining_bytes),
                                remaining_bytes),
                head |-> remaining_bytes]

\* write_ok: whether write(fd_core) returns frame_size (a datagram socket
\* takes the whole frame or fails).  Result: ret, fatal, the frame written
\* (<<>> when none), the buffer and *buffer_head.
delimit_and_push_frames_to_core(buf, head, write_ok) ==
  IF head < SLI_CPC_HDLC_HEADER_RAW_SIZE
  THEN [ret |-> FALSE, fatal |-> FALSE, frame |-> <<>>,
        buffer |-> buf, head |-> head]
  ELSE
    LET payload_len == hdlc_get_length(buf, 0)
        frame_size == payload_len + SLI_CPC_HDLC_HEADER_RAW_SIZE
    IN IF frame_size > head
       THEN [ret |-> FALSE, fatal |-> FALSE, frame |-> <<>>,
             buffer |-> buf, head |-> head]
       ELSE IF ~write_ok
       THEN [ret |-> FALSE, fatal |-> TRUE, frame |-> <<>>,
             buffer |-> buf, head |-> head]
       ELSE LET remaining_bytes == head - frame_size
            IN [ret |-> TRUE, fatal |-> FALSE,
                frame |-> Slice(buf, 0, frame_size),
                buffer |-> Take(memmove(buf, 0, frame_size, remaining_bytes),
                                remaining_bytes),
                head |-> remaining_bytes]

\* Mutant of write_fd_core: the newest datagrams are delivered first.
write_fd_core_newest_first(queue, frames) == frames \o queue

\* The datagrams of one invocation, queued on the socket behind those
\* written before.
write_fd_core(queue, frames) == queue \o frames

\* The while (1) / switch (state) loop of driver_uart_process_uart.
\* c: the loop's variables; wfail: which write(fd_core) of this invocation
\* fails (0: none).  c.frames and c.fate record what the loop did.
RECURSIVE process_loop(_, _)
process_loop(c, wfail) ==
  IF c.state = EXPECTING_HEADER
  THEN LET r == header_re_synch(c.buffer, c.head)
           d == [c EXCEPT !.buffer = r.buffer, !.head = r.head,
                          !.fate = c.fate \o Rep("D", c.head - r.head)]
       IN IF r.ret
          THEN process_loop([d EXCEPT !.state = EXPECTING_PAYLOAD], wfail)
          ELSE d
  ELSE LET r == delimit_and_push_frames_to_core(
                   c.buffer, c.head, Len(c.frames) + 1 # wfail)
       IN IF r.fatal THEN [c EXCEPT !.fatal = TRUE]
          ELSE IF r.ret
          THEN process_loop(
                 [c EXCEPT !.buffer = r.buffer, !.head = r.head,
                           !.state = EXPECTING_HEADER,
                           !.frames = Append(c.frames,
                              [bytes |-> r.frame, start |-> Len(c.fate)]),
                           !.fate = c.fate \o Rep("F", Len(r.frame))],
                 wfail)
          ELSE c

\* Mutant of actual_read_bytes: the free space is not looked at.
actual_read_bytes_unclamped(head, size, available) == available

\* available: what ioctl(FIONREAD) stores; the number of bytes to read.
actual_read_bytes(head, size, available) ==
  LET available_space == size - head
  IN IF available < available_space THEN available ELSE available_space

\* Mutant of MAX_EPOLL_EVENTS: room for the events of both descriptors.
MAX_EPOLL_EVENTS_both == 1 + 1

\* Size of the array epoll_wait fills.
MAX_EPOLL_EVENTS == 1

\* What epoll_wait may store in events[] when the sources of ready are
\* readable: some of them, at least one, no more than the array holds.
epoll_wait_events(ready) ==
  {events \in SUBSET ready : Cardinality(events) \in 1..MAX_EPOLL_EVENTS}

\* The sources readable when epoll_wait returns: the link when it has
\* bytes, the socket when the core has sent a datagram not yet read.
ready_sources(link_readable) ==
  (IF link_readable THEN {"uart"} ELSE {})
    \cup (IF core_tx # <<>> THEN {"core"} ELSE {})

\* epoll_wait returns with events, among them the one of source, whose
\* callback the for loop calls.
epoll_wait_returns(source, link_readable) ==
  \E events \in epoll_wait_events(ready_sources(link_readable)) :
    /\ source \in events
    /\ wake' = [ready |-> ready_sources(link_readable), events |-> events]

\* The system calls of read_and_append_uart_received_data that can fail.
UartIoFailure == {"ioctl_err", "malloc_null", "read_err", "read_short"}

\* One invocation of the ingress handler that ends in FATAL or BUG inside
\* read_and_append_uart_received_data: a system call fails, or FIONREAD
\* reports no byte, or read returns fewer bytes than were asked for.  The
\* short read has taken its bytes from the link (they are in temp_buffer,
\* never copied to buffer) when FATAL_ON fires; it happens whenever the
\* count the code sees exceeds what the link holds: FIONREAD stores an int
\* into available_bytes, a size_t that was not initialised, and the bytes
\* it does not store may hold anything.
driver_uart_process_uart_fatal(limit, bytes) ==
  /\ pc = "epoll_wait"
  /\ epoll_wait_returns("uart", TRUE)
  /\ pc' = "fatal"
  /\ \/ /\ \E io \in (UartIoFailure \ {"read_short"}) \cup {"no_data"} :
             last_fault' = io
        /\ UNCHANGED rxlog
     \/ /\ last_fault' = "read_short"
        /\ \E available \in 1..(UART_BUFFER_SIZE - buffer_head + 1) :
             LET n == actual_read_bytes(buffer_head, UART_BUFFER_SIZE,
                                        available)
             IN \E read_retval \in 0..(n - 1) :
                  /\ Len(rxlog) + read_retval <= limit
                  /\ \E data \in [1..read_retval -> bytes] :
                       rxlog' = rxlog \o data
  /\ UNCHANGED <<buffer, buffer_head, state, core_rx, fate, n_reads,
                 empty_reads, entry, egress_vars>>

\* One invocation of the ingress handler whose read succeeds.  limit bounds
\* the bytes read in the behaviour, bytes is what the link delivers;
\* available ranges up to one more than the free space.
driver_uart_process_uart(limit, bytes) ==
  /\ pc = "epoll_wait"
  /\ epoll_wait_returns("uart", TRUE)
  /\ \E available \in 1..(UART_BUFFER_SIZE - buffer_head + 1) :
       LET n == actual_read_bytes(buffer_head, UART_BUFFER_SIZE, available)
       IN /\ Len(rxlog) + n <= limit
          /\ \E data \in [1..n -> bytes] :
               LET c0 == [state |-> state,
                          buffer |-> memcpy(buffer, data, n),
                          head |-> buffer_head + n,
                          frames |-> <<>>,
                          fate |-> fate, fatal |-> FALSE]
               IN \E ok \in {process_loop(c0, 0)} :
                  \E wfail \in 0..Len(ok.frames) :
                    \E c \in {IF wfail = 0 THEN ok
                               ELSE process_loop(c0, wfail)} :
                       /\ buffer' = c.buffer
                       /\ buffer_head' = c.head
                       /\ state' = c.state
                       /\ core_rx' = write_fd_core(core_rx, c.frames)
                       /\ pc' = IF c.fatal THEN "fatal" ELSE "epoll_wait"
                       /\ last_fault' = IF c.fatal THEN "write_core"
                                        ELSE last_fault
                       /\ rxlog' = rxlog \o data
                       /\ fate' = c.fate
                       /\ n_reads' = IF n_reads = 0 THEN 1 ELSE 2
                       /\ empty_reads' = IF n = 0 THEN 1 - empty_reads
                                         ELSE empty_reads
  /\ UNCHANGED <<entry, egress_vars>>

(***************************************************************************)
(* The ingress handler again, one step for the read and one for each turn  *)
(* of its while (1) loop; pc = "loop" between them.                        *)
(***************************************************************************)
\* entry when the thread is not in the loop
NoEntry == [state |-> "none", buffer |-> <<>>, frames |-> 0]

\* buffer_head += read_and_append_uart_received_data(...), no call failing.
process_uart_read(limit, bytes) ==
  /\ pc = "epoll_wait"
  /\ epoll_wait_returns("uart", TRUE)
  /\ \E available \in 1..(UART_BUFFER_SIZE - buffer_head + 1) :
       LET n == actual_read_bytes(buffer_head, UART_BUFFER_SIZE, available)
       IN /\ Len(rxlog) + n <= limit
          /\ \E data \in [1..n -> bytes] :
               /\ buffer' = memcpy(buffer, data, n)
               /\ buffer_head' = buffer_head + n
               /\ rxlog' = rxlog \o data
               /\ entry' = [state |-> state,
                            buffer |-> memcpy(buffer, data, n),
                            frames |-> Len(core_rx)]
               /\ empty_reads' = IF n = 0 THEN 1 - empty_reads
                                 ELSE empty_reads
  /\ n_reads' = IF n_reads = 0 THEN 1 ELSE 2
  /\ pc' = "loop"
  /\ UNCHANGED <<state, core_rx, fate, egress_vars, last_fault>>

\* case EXPECTING_HEADER of the switch.
process_uart_expecting_header ==
  /\ pc = "loop"
  /\ state = EXPECTING_HEADER
  /\ \E r \in {header_re_synch(buffer, buffer_head)} :
       /\ buffer' = r.buffer
       /\ buffer_head' = r.head
       /\ fate' = fate \o Rep("D", buffer_head - r.head)
       /\ state' = IF r.ret THEN EXPECTING_PAYLOAD ELSE state
       /\ pc' = IF r.ret THEN "loop" ELSE "epoll_wait"
       /\ entry' = IF r.ret THEN entry ELSE NoEntry
  /\ UNCHANGED <<core_rx, rxlog, n_reads, empty_reads, egress_vars,
                 dispatch_vars>>

\* case EXPECTING_PAYLOAD of the switch.
process_uart_expecting_payload ==
  /\ pc = "loop"
  /\ state = EXPECTING_PAYLOAD
  /\ \E write_ok \in BOOLEAN :
       \E r \in {delimit_and_push_frames_to_core(buffer, buffer_head,
                                                 write_ok)} :
         /\ buffer' = r.buffer
         /\ buffer_head' = r.head
         /\ core_rx' = IF r.ret
                       THEN write_fd_core(core_rx,
                              <<[bytes |-> r.frame, start |-> Len(fate)]>>)
                       ELSE core_rx
         /\ fate' = fate \o Rep("F", Len(r.frame))
         /\ state' = IF r.ret THEN EXPECTING_HEADER ELSE state
         /\ pc' = IF r.fatal THEN "fatal"
                  ELSE IF r.ret THEN "loop" ELSE "epoll_wait"
         /\ last_fault' = IF r.fatal THEN "write_core" ELSE last_fault
         /\ entry' = IF r.ret THEN entry ELSE NoEntry
  /\ UNCHANGED <<rxlog, n_reads, empty_reads, egress_vars, wake>>

(***************************************************************************)
(* Egress.                                                                 *)
(***************************************************************************)
\* The bit rate driver_uart_init was given.
uart_bitrate == 115200

\* The datagrams the core sends.
CoreMsg == {<<1>>, <<2, 3>>}

(***************************************************************************)
(* The sleeps are computed in double.  A double other than 0 is            *)
(* [m, frac], of value m / 2^frac: m its significand, at most DBL_MANT_DIG *)
(* bits, the most significant first and 1; frac may be negative.           *)
(* Numbers longer than an int are kept as bits, or as digits of 10 bits.   *)
(***************************************************************************)
DBL_MANT_DIG == 53

DoubleZero == [m |-> <<>>, frac |-> 0]

\* The natural number whose bits are m, at most 31 of them.
RECURSIVE value_of(_)
value_of(m) ==
  IF Len(m) = 0 THEN 0
  ELSE IF Len(m) = 1 THEN m[1]
  ELSE LET h == Len(m) \div 2
       IN value_of(SubSeq(m, 1, h)) * 2^(Len(m) - h)
            + value_of(SubSeq(m, h + 1, Len(m)))

\* Bit i of the len bits of v, the most significant being bit 1.
bit_of(v, len, i) == (v \div 2^(len - i)) % 2

\* m from its first 1 on.
strip_zeroes(m) ==
  IF \A i \in 1..Len(m) : m[i] = 0 THEN <<>>
  ELSE SubSeq(m, CHOOSE i \in 1..Len(m) :
                   m[i] = 1 /\ \A j \in 1..(i - 1) : m[j] = 0,
              Len(m))

\* m + 1, one bit longer when every bit of m is 1.
increment(m) ==
  IF \A i \in 1..Len(m) : m[i] = 1
  THEN <<1>> \o [i \in 1..Len(m) |-> 0]
  ELSE LET z == CHOOSE i \in 1..Len(m) :
                  m[i] = 0 /\ \A j \in (i + 1)..Len(m) : m[j] = 1
       IN [i \in 1..Len(m) |->
             IF i < z THEN m[i] ELSE IF i = z THEN 1 ELSE 0]

\* Rounding to nearest, ties to even, of m / 2^frac (m more than
\* DBL_MANT_DIG bits) plus something less than 1 / 2^frac when sticky.
round_bits(m, sticky, frac) ==
  LET kept == SubSeq(m, 1, DBL_MANT_DIG)
      half == m[DBL_MANT_DIG + 1] = 1
      more == sticky \/ \E i \in (DBL_MANT_DIG + 2)..Len(m) : m[i] = 1
      up == half /\ (more \/ kept[DBL_MANT_DIG] = 1)
      r == IF up THEN increment(kept) ELSE kept
      f == frac - (Len(m) - DBL_MANT_DIG)
  IN IF Len(r) > DBL_MANT_DIG
     THEN [m |-> SubSeq(r, 1, DBL_MANT_DIG), frac |-> f - 1]
     ELSE [m |-> r, frac |-> f]

\* The double nearest to m / 2^frac, m starting with 1.
round_to_double(m, sticky, frac) ==
  IF Len(m) > DBL_MANT_DIG THEN round_bits(m, sticky, frac)
  ELSE IF ~sticky THEN [m |-> m, frac |-> frac]
  ELSE round_bits(m \o [i \in 1..(DBL_MANT_DIG + 1 - Len(m)) |-> 0], sticky,
                  frac + (DBL_MANT_DIG + 1 - Len(m)))

\* Long division of x by y < 2^21 in base 2^10: the remainder left after
\* n digits of the fraction.
RECURSIVE remainder_after(_, _, _)
remainder_after(x, y, n) ==
  IF n = 0 THEN x % y ELSE (remainder_after(x, y, n - 1) * 1024) % y

\* The n-th digit of the fraction of x / y.
fraction_digit(x, y, n) == (remainder_after(x, y, n - 1) * 1024) \div y

\* Digits of the fraction computed: enough for DBL_MANT_DIG + 1 bits from
\* the first 1 of the smallest quotient.
FractionDigits == 8

\* The 31 bits of x \div y, then the bits of FractionDigits digits of the
\* fraction.
quotient_bits(x, y) ==
  [i \in 1..(31 + 10 * FractionDigits) |->
     IF i <= 31 THEN bit_of(x \div y, 31, i)
     ELSE bit_of(fraction_digit(x, y, (i - 32) \div 10 + 1), 10,
                 ((i - 32) % 10) + 1)]

\* (double) x / (double) y for integers 0 <= x < 2^31 and 0 < y < 2^21,
\* both converted exactly.
double_div(x, y) ==
  IF x = 0 THEN DoubleZero
  ELSE round_to_double(
         strip_zeroes(SubSeq(quotient_bits(x, y), 1,
                             31 + 10 * FractionDigits)),
         remainder_after(x, y, FractionDigits) # 0,
         10 * FractionDigits)

\* Digit j of m in base 2^10, digit 0 the least significant.
digit_of(m, j) ==
  value_of(SubSeq(m, IF Len(m) - 10 * j - 9 < 1 THEN 1
                     ELSE Len(m) - 10 * j - 9,
                  Len(m) - 10 * j))

\* The carry into digit j of m * k, k < 2^20.
RECURSIVE carry_into(_, _, _)
carry_into(m, k, j) ==
  IF j = 0 THEN 0
  ELSE (digit_of(m, j - 1) * k + carry_into(m, k, j - 1)) \div 1024

\* The bits of m * k: the last carry, then the digits.
product_bits(m, k) ==
  LET digits == (Len(m) + 9) \div 10
  IN [i \in 1..(31 + 10 * digits) |->
        IF i <= 31 THEN bit_of(carry_into(m, k, digits), 31, i)
        ELSE LET j == digits - 1 - ((i - 32) \div 10)
             IN bit_of((digit_of(m, j) * k + carry_into(m, k, j)) % 1024,
                       10, ((i - 32) % 10) + 1)]

\* d * (double) k for an integer 0 < k < 2^20.
double_mul(d, k) ==
  IF d.m = <<>> THEN DoubleZero
  ELSE round_to_double(
         strip_zeroes(SubSeq(product_bits(d.m, k), 1,
                             31 + 10 * ((Len(d.m) + 9) \div 10))),
         FALSE, d.frac)

\* (unsigned int) d: the fraction is dropped.  Of a value of 2^32 or more
\* the conversion is undefined; the values from 2^31 on are left out.
double_to_unsigned(d) ==
  CASE Len(d.m) <= d.frac -> 0
    [] Len(d.m) > d.frac /\ d.frac >= 0 /\ Len(d.m) - d.frac <= 31 ->
         value_of(SubSeq(d.m, 1, Len(d.m) - d.frac))
    [] Len(d.m) > d.frac /\ d.frac < 0 /\ Len(d.m) - d.frac <= 31 ->
         value_of(d.m \o [i \in 1..(0 - d.frac) |-> 0])

\* (unsigned int)(((double)(nbytes * 8) / uart_bitrate) * 1000000), for a
\* count that is not negative (of a negative one the conversion to
\* unsigned int is undefined).
time_usec(nbytes) ==
  CASE nbytes >= 0 ->
    double_to_unsigned(double_mul(double_div(nbytes * 8, uart_bitrate),
                                  1000000))

\* The sleep of twenty byte times.
idle_time_usec == time_usec(20)

\* Mutant of drain_pending: a last byte in the queue is let through.
drain_pending_but_one(remaining) == remaining > 1

\* The condition of the drain loop.
drain_pending(remaining) == remaining # 0

\* Mutant of write_fd_uart: the newest message overtakes the others.
write_fd_uart_newest_first(log, bytes) == <<bytes>> \o log

\* What write(fd_uart) adds to the link.
write_fd_uart(log, bytes) == Append(log, bytes)

\* read(fd_core, buffer, sizeof(buffer)): the next datagram, or an error.
process_core_read ==
  /\ pc = "epoll_wait"
  /\ core_tx # <<>>
  /\ \E link_readable \in BOOLEAN : epoll_wait_returns("core", link_readable)
  /\ \/ /\ pc' = "tiocoutq"
        /\ msg' = Head(core_tx)
        /\ core_tx' = Tail(core_tx)
        /\ core_read_log' = Append(core_read_log, Head(core_tx))
        /\ polled' = -1
        /\ idle_gap' = 0
        /\ drained' = FALSE
        /\ UNCHANGED <<bytes_remaining, tx_queue, uart_tx, last_fault,
                       drain_turn>>
     \/ /\ pc' = "fatal"
        /\ last_fault' = "read_core"
        /\ UNCHANGED egress_vars
  /\ UNCHANGED ingress_vars

\* ioctl(fd_uart, TIOCOUTQ, &bytes_remaining), checked, then the first
\* test of the loop condition.
process_core_first_poll ==
  /\ pc = "tiocoutq"
  /\ \/ /\ bytes_remaining' = tx_queue
        /\ polled' = tx_queue
        /\ pc' = IF tx_queue < 0 THEN "fatal"
                 ELSE IF drain_pending(tx_queue) THEN "drain_sleep"
                 ELSE "idle_sleep"
        /\ UNCHANGED last_fault
     \/ /\ pc' = "fatal"
        /\ last_fault' = "TIOCOUTQ"
        /\ UNCHANGED <<bytes_remaining, polled>>
  /\ UNCHANGED <<ingress_vars, core_tx, msg, tx_queue, uart_tx,
                 core_read_log, idle_gap, drained, drain_turn, wake>>

\* One turn of the drain loop: usleep for the bytes last seen, then
\* ioctl(TIOCOUTQ) again, its return value not looked at (a failed call
\* leaves bytes_remaining as it was), then the loop condition.
process_core_drain ==
  /\ pc = "drain_sleep"
  /\ \E ioctl_ok \in BOOLEAN :
       LET seen == IF ioctl_ok THEN tx_queue ELSE bytes_remaining
       IN /\ bytes_remaining' = seen
          /\ polled' = IF ioctl_ok THEN tx_queue ELSE polled
          /\ pc' = IF drain_pending(seen) THEN "drain_sleep" ELSE "idle_sleep"
          /\ last_fault' = IF ioctl_ok THEN last_fault ELSE "TIOCOUTQ_again"
  /\ drained' = TRUE
  /\ drain_turn' = 1 - drain_turn
  /\ UNCHANGED <<ingress_vars, core_tx, msg, tx_queue, uart_tx,
                 core_read_log, idle_gap, wake>>

\* usleep of twenty byte times.
process_core_idle ==
  /\ pc = "idle_sleep"
  /\ idle_gap' = idle_time_usec
  /\ pc' = "uart_write"
  /\ UNCHANGED <<ingress_vars, core_tx, msg, bytes_remaining, tx_queue,
                 uart_tx, core_read_log, polled, drained, drain_turn,
                 dispatch_vars>>

\* write(fd_uart, buffer, read_retval): all of it, or (fatal) a part of it,
\* or (fatal) an error.
process_core_write ==
  /\ pc = "uart_write"
  /\ \E written \in -1..Len(msg) :
       /\ pc' = IF written = Len(msg) THEN "epoll_wait" ELSE "fatal"
       /\ uart_tx' = IF written > 0 \/ written = Len(msg)
                     THEN write_fd_uart(uart_tx, SubSeq(msg, 1, written))
                     ELSE uart_tx
       /\ tx_queue' = IF written > 0 THEN tx_queue + written ELSE tx_queue
       /\ msg' = IF written = Len(msg) THEN <<>> ELSE msg
       /\ bytes_remaining' = IF written = Len(msg) THEN 0 ELSE bytes_remaining
       /\ last_fault' = IF written = Len(msg) THEN last_fault
                        ELSE IF written < 0 THEN "write_uart"
                        ELSE "write_uart_short"
  /\ UNCHANGED <<ingress_vars, core_tx, core_read_log, polled, idle_gap,
                 drained, drain_turn, wake>>

driver_uart_process_core ==
  \/ process_core_read
  \/ process_core_first_poll
  \/ process_core_drain
  \/ process_core_idle
  \/ process_core_write

(***************************************************************************)
(* The dispatcher and the environment.                                     *)
(***************************************************************************)
\* Mutant of epoll_wait_outcome: a return without event is a timeout,
\* waited out.
epoll_wait_outcome_zero_tolerated(event_count, eintr) ==
  IF event_count = -1 /\ eintr THEN "retry"
  ELSE IF event_count < 0 THEN "fatal"
  ELSE IF event_count = 0 THEN "retry"
  ELSE "dispatch"

\* What the thread does with the value of epoll_wait; eintr: errno is EINTR.
epoll_wait_outcome(event_count, eintr) ==
  IF event_count = -1 /\ eintr THEN "retry"
  ELSE IF event_count < 0 THEN "fatal"
  ELSE IF event_count = 0 THEN "fatal"
  ELSE "dispatch"

\* epoll_wait interrupted by a signal, and called again.
epoll_wait_interrupted ==
  /\ pc = "epoll_wait"
  /\ pc' = IF epoll_wait_outcome(-1, TRUE) = "fatal" THEN "fatal" ELSE pc
  /\ last_fault' = "EINTR"
  /\ UNCHANGED <<ingress_vars, egress_vars, wake>>

\* epoll_wait failed otherwise, or back with no event.
epoll_wait_fatal ==
  /\ pc = "epoll_wait"
  /\ \E event_count \in {-1, 0} :
       /\ pc' = IF epoll_wait_outcome(event_count, FALSE) = "fatal"
                THEN "fatal" ELSE pc
       /\ last_fault' = IF event_count < 0 THEN "epoll_wait"
                        ELSE "epoll_wait_zero"
  /\ UNCHANGED <<ingress_vars, egress_vars, wake>>

\* One wake of epoll_wait with one event (MAX_EPOLL_EVENTS), and the
\* callback of that event; process_core goes on in steps of its own.
driver_thread_func(limit) ==
  \/ epoll_wait_interrupted
  \/ epoll_wait_fatal
  \/ driver_uart_process_uart(limit, Byte)
  \/ driver_uart_process_uart_fatal(limit, Byte)
  \/ driver_uart_process_core

\* The core sends a datagram.
core_send ==
  /\ Len(core_read_log) + Len(core_tx) < MaxCoreMsgs
  /\ pc # "fatal"
  /\ \E m \in CoreMsg : core_tx' = Append(core_tx, m)
  /\ UNCHANGED <<ingress_vars, msg, bytes_remaining, tx_queue, uart_tx,
                 core_read_log, polled, idle_gap, drained, drain_turn,
                 dispatch_vars, pc>>

\* The UART transmits a byte of its queue.
uart_transmit ==
  /\ tx_queue > 0
  /\ pc # "fatal"
  /\ tx_queue' = tx_queue - 1
  /\ UNCHANGED <<ingress_vars, core_tx, msg, bytes_remaining, uart_tx,
                 core_read_log, polled, idle_gap, drained, drain_turn,
                 dispatch_vars, pc>>

(***************************************************************************)
(* Specifications.  Spec: the ingress handler alone, invoked again and     *)
(* again with every available count and every data the link can deliver.   *)
(* SpecLong: the same over longer streams of fewer byte values, so that    *)
(* more bytes arrive than the buffer holds.                                *)
(* SpecDriver: the whole thread, with the core and the UART transmitter;   *)
(* SpecDriverFair: the same, the thread and the UART never stopping.       *)
(* SpecLoop: the ingress handler, every turn of its loop a step;           *)
(* SpecLoopFair: the same over markers and zeroes, the thread never        *)
(* stopping inside the loop.                                               *)
(***************************************************************************)
Init ==
  /\ buffer = <<>>
  /\ buffer_head = 0
  /\ state = EXPECTING_HEADER
  /\ core_rx = <<>>
  /\ pc = "epoll_wait"
  /\ rxlog = <<>>
  /\ fate = <<>>
  /\ n_reads = 0
  /\ empty_reads = 0
  /\ entry = NoEntry
  /\ core_tx = <<>>
  /\ msg = <<>>
  /\ bytes_remaining = 0
  /\ tx_queue = 0
  /\ uart_tx = <<>>
  /\ core_read_log = <<>>
  /\ polled = -1
  /\ idle_gap = 0
  /\ drained = FALSE
  /\ drain_turn = 0
  /\ last_fault = "none"
  /\ wake = [ready |-> {}, events |-> {}]

Next ==
  \/ driver_uart_process_uart(MaxStream, Byte)
  \/ driver_uart_process_uart_fatal(MaxStream, Byte)

Spec == Init /\ [][Next]_vars

NextLong ==
  \/ driver_uart_process_uart(LongStream, MarkerOrZero)
  \/ driver_uart_process_uart_fatal(LongStream, MarkerOrZero)

SpecLong == Init /\ [][NextLong]_vars

NextLoop ==
  \/ process_uart_read(LoopStream, Byte)
  \/ driver_uart_process_uart_fatal(LoopStream, Byte)
  \/ process_uart_expecting_header
  \/ process_uart_expecting_payload

SpecLoop == Init /\ [][NextLoop]_vars

NextLoopFair ==
  \/ process_uart_read(LoopStream, MarkerOrZero)
  \/ driver_uart_process_uart_fatal(LoopStream, MarkerOrZero)
  \/ process_uart_expecting_header
  \/ process_uart_expecting_payload

\* The thread, once in the loop, goes on running it.
SpecLoopFair ==
  /\ Init
  /\ [][NextLoopFair]_vars
  /\ WF_vars(process_uart_expecting_header)
  /\ WF_vars(process_uart_expecting_payload)

NextDriver ==
  \/ driver_thread_func(DriverMaxStream)
  \/ core_send
  \/ uart_transmit

SpecDriver == Init /\ [][NextDriver]_vars

\* The thread, once in process_core, goes on running it, and the UART
\* goes on transmitting what its queue holds.  Nothing is assumed of the
\* outcome of a system call.
SpecDriverFair ==
  /\ Init
  /\ [][NextDriver]_vars
  /\ WF_vars(process_core_first_poll)
  /\ WF_vars(process_core_drain)
  /\ WF_vars(process_core_idle)
  /\ WF_vars(process_core_write)
  /\ WF_vars(uart_transmit)

(***************************************************************************)
(* Vocabulary of the properties.                                           *)
(***************************************************************************)
\* the bytes of the datagrams on the core channel, oldest first
CoreFrames == [k \in 1..Len(core_rx) |-> core_rx[k].bytes]

\* a header validates at offset i of the byte sequence s
HeaderAt(s, i) ==
  /\ i >= 0
  /\ i + SLI_CPC_HDLC_HEADER_RAW_SIZE <= Len(s)
  /\ validate_header(s, i)

\* no header-sized window starting at an offset below k validates in s
NoHeaderBefore(s, k) == \A i \in 0..(k - 1) : ~HeaderAt(s, i)

\* f is a well-formed frame: valid header, payload length within the
\* maximum, and as many payload bytes as the header announces
WellFormedFrame(f) ==
  /\ HeaderAt(f, 0)
  /\ hdlc_get_length(f, 0) <= MAX_PAYLOAD
  /\ Len(f) = SLI_CPC_HDLC_HEADER_RAW_SIZE + hdlc_get_length(f, 0)

\* the link has delivered k bytes in which no window validates, then one
\* valid header, and nothing else
GarbageThenHeader ==
  /\ pc # "fatal"
  /\ HeaderAt(rxlog, Len(rxlog) - SLI_CPC_HDLC_HEADER_RAW_SIZE)
  /\ NoHeaderBefore(rxlog, Len(rxlog) - SLI_CPC_HDLC_HEADER_RAW_SIZE)

\* the synchronizer holds exactly the last header of rxlog, at offset 0,
\* is waiting for its payload, and has discarded all that came before
SynchronizedOnHeader ==
  /\ state = EXPECTING_PAYLOAD
  /\ buffer_head = SLI_CPC_HDLC_HEADER_RAW_SIZE
  /\ buffer = Slice(rxlog, Len(rxlog) - SLI_CPC_HDLC_HEADER_RAW_SIZE,
                    SLI_CPC_HDLC_HEADER_RAW_SIZE)
  /\ fate = Rep("D", Len(rxlog) - SLI_CPC_HDLC_HEADER_RAW_SIZE)

\* the last header of rxlog went to the core as a frame of its own, all
\* that came before was discarded and nothing is buffered
HeaderForwardedAlone ==
  /\ state = EXPECTING_HEADER
  /\ buffer_head = 0
  /\ buffer = <<>>
  /\ CoreFrames = <<Slice(rxlog, Len(rxlog) - SLI_CPC_HDLC_HEADER_RAW_SIZE,
                          SLI_CPC_HDLC_HEADER_RAW_SIZE)>>
  /\ fate = Rep("D", Len(rxlog) - SLI_CPC_HDLC_HEADER_RAW_SIZE)
            \o Rep("F", SLI_CPC_HDLC_HEADER_RAW_SIZE)

(***************************************************************************)
(* C1 as stated: after k bytes without a valid window followed by one      *)
(* valid header, whatever the reads that delivered them, the synchronizer  *)
(* is in EXPECTING_PAYLOAD with the header at offset 0 and exactly the k   *)
(* leading bytes discarded.                                                *)
(***************************************************************************)
C1_ResyncEndsExpectingPayload == GarbageThenHeader => SynchronizedOnHeader

(***************************************************************************)
(* C1 amended: the same, when the header announces a payload; a header     *)
(* announcing no payload is a whole frame, forwarded in the same           *)
(* invocation, which leaves EXPECTING_HEADER and an empty buffer.  In      *)
(* both cases exactly the k leading bytes are discarded.                   *)
(***************************************************************************)
C1_ResyncAtHeader ==
  GarbageThenHeader =>
    IF hdlc_get_length(rxlog, Len(rxlog) - SLI_CPC_HDLC_HEADER_RAW_SIZE) = 0
    THEN HeaderForwardedAlone
    ELSE SynchronizedOnHeader

\* garbage, then a header announcing a payload, delivered by several reads
C1_Witness ==
  /\ GarbageThenHeader
  /\ Len(rxlog) > SLI_CPC_HDLC_HEADER_RAW_SIZE + 1
  /\ n_reads = 2
  /\ state = EXPECTING_PAYLOAD
  /\ fate # <<>>

(***************************************************************************)
(* C2: when the bytes read so far are exactly one well-formed frame,       *)
(* whatever the reads that delivered them, that frame and nothing else is  *)
(* on the core channel, the buffer is empty and the state is               *)
(* EXPECTING_HEADER.                                                       *)
(***************************************************************************)
C2_FrameRoundTrip ==
  (pc # "fatal" /\ WellFormedFrame(rxlog)) =>
    /\ CoreFrames = <<rxlog>>
    /\ buffer_head = 0
    /\ buffer = <<>>
    /\ state = EXPECTING_HEADER

\* a frame with a payload, delivered by several reads
C2_Witness ==
  /\ pc # "fatal"
  /\ WellFormedFrame(rxlog)
  /\ Len(rxlog) > SLI_CPC_HDLC_HEADER_RAW_SIZE
  /\ n_reads = 2
  /\ Len(core_rx) = 1

(***************************************************************************)
(* C4: when the bytes read so far number at least a header and no window   *)
(* validates among them, the buffer holds exactly their last               *)
(* header-size - 1 bytes, in order, and the state is EXPECTING_HEADER.     *)
(* The bytes were processed: the thread did not end in the FATAL of a      *)
(* short read, whose bytes never reach the buffer.                         *)
(***************************************************************************)
C4_NoHeaderSuffixRetention ==
  (/\ last_fault # "read_short"
   /\ Len(rxlog) >= SLI_CPC_HDLC_HEADER_RAW_SIZE
   /\ NoHeaderBefore(rxlog, Len(rxlog))) =>
    /\ buffer_head = SLI_CPC_HDLC_HEADER_RAW_SIZE - 1
    /\ buffer = Slice(rxlog, Len(rxlog) - (SLI_CPC_HDLC_HEADER_RAW_SIZE - 1),
                      SLI_CPC_HDLC_HEADER_RAW_SIZE - 1)
    /\ state = EXPECTING_HEADER

\* noise up to the stream bound, none of it a header, in several reads
C4_Witness ==
  /\ Len(rxlog) = MaxStream
  /\ NoHeaderBefore(rxlog, Len(rxlog))
  /\ buffer_head = SLI_CPC_HDLC_HEADER_RAW_SIZE - 1
  /\ n_reads = 2
  /\ pc # "fatal"

\* the bytes an ingress step appended to the buffer
Appended == SubSeq(rxlog', Len(rxlog) + 1, Len(rxlog'))

\* s is the concatenation of two well-formed frames, the first of m bytes
TwoFramesAt(s, m) ==
  /\ WellFormedFrame(SubSeq(s, 1, m))
  /\ WellFormedFrame(SubSeq(s, m + 1, Len(s)))

TwoFrames(s) == \E m \in 1..Len(s) : TwoFramesAt(s, m)

\* the step's read appended two well-formed frames, the first of m bytes,
\* and no system call failed
ReadTwoFrames(m) ==
  /\ pc' # "fatal"
  /\ Len(Appended) > m
  /\ TwoFramesAt(Appended, m)

\* the step wrote these two frames, in order, and left the buffer empty
WroteTwoFrames(m) ==
  /\ Len(core_rx') = Len(core_rx) + 2
  /\ core_rx'[Len(core_rx) + 1].bytes = SubSeq(Appended, 1, m)
  /\ core_rx'[Len(core_rx) + 2].bytes = SubSeq(Appended, m + 1, Len(Appended))
  /\ buffer_head' = 0
  /\ buffer' = <<>>

(***************************************************************************)
(* C3 as stated: an invocation whose single read appends the               *)
(* concatenation of two well-formed frames writes exactly these two        *)
(* frames to the core channel, in that order, and leaves the buffer        *)
(* empty, whatever was buffered at its entry.                              *)
(***************************************************************************)
C3_BatchingWhateverIsBuffered ==
  [][\A m \in 1..UART_BUFFER_SIZE :
       ReadTwoFrames(m) => WroteTwoFrames(m)]_vars

(***************************************************************************)
(* C3 amended: the same, for an invocation that finds the buffer empty.    *)
(***************************************************************************)
C3_MultiFrameBatching ==
  [][\A m \in 1..UART_BUFFER_SIZE :
       (buffer_head = 0 /\ ReadTwoFrames(m)) => WroteTwoFrames(m)]_vars

\* the first read delivered two frames and both are on the core channel
C3_Witness ==
  /\ n_reads = 1
  /\ pc # "fatal"
  /\ TwoFrames(rxlog)
  /\ Len(core_rx) = 2
  /\ buffer_head = 0

\* the offsets in rxlog (from 1) of the bytes of the k-th datagram
FrameRange(k) ==
  (core_rx[k].start + 1)..(core_rx[k].start + Len(core_rx[k].bytes))

(***************************************************************************)
(* C5: every datagram on the core channel starts with a header whose       *)
(* marker is the sentinel and whose checksum matches, is as long as that   *)
(* header announces, and is made of bytes of the link none of which        *)
(* resynchronization discarded.                                            *)
(***************************************************************************)
C5_ForwardedFramesValid ==
  \A k \in 1..Len(core_rx) :
    LET f == core_rx[k].bytes
    IN /\ Len(f) >= SLI_CPC_HDLC_HEADER_RAW_SIZE
       /\ At(f, SLI_CPC_HDLC_FLAG_POS) = SLI_CPC_HDLC_FLAG_VAL
       /\ sli_cpc_get_crc_sw(f, 0, SLI_CPC_HDLC_HEADER_SIZE) = hdlc_get_hcs(f, 0)
       /\ Len(f) = SLI_CPC_HDLC_HEADER_RAW_SIZE + hdlc_get_length(f, 0)
       /\ FrameRange(k) \subseteq 1..Len(fate)
       /\ f = Slice(rxlog, core_rx[k].start, Len(f))
       /\ \A x \in FrameRange(k) : fate[x] # "D"

\* garbage was discarded, then a frame with a payload was forwarded
C5_Witness ==
  /\ Len(core_rx) = 1
  /\ core_rx[1].start > 0
  /\ Len(core_rx[1].bytes) > SLI_CPC_HDLC_HEADER_RAW_SIZE
  /\ fate[1] = "D"

(***************************************************************************)
(* C6: a write on the link happens only when the last TIOCOUTQ of this     *)
(* invocation returned 0 and, since then, the idle sleep of twenty byte    *)
(* times at the bit rate has been slept; with a depth other than 0 last    *)
(* returned, nothing is written.                                           *)
(***************************************************************************)
C6_EgressPacing ==
  [][uart_tx' # uart_tx =>
       /\ polled = 0
       /\ bytes_remaining = 0
       /\ idle_gap > 0
       /\ idle_gap * uart_bitrate <= 20 * 8 * 1000000
       /\ (idle_gap + 1) * uart_bitrate > 20 * 8 * 1000000]_vars

\* a second message went out after the drain loop had to sleep
C6_Witness ==
  /\ Len(uart_tx) = 2
  /\ drained
  /\ pc = "epoll_wait"

(***************************************************************************)
(* C7: the datagrams are on the core channel in the order in which their   *)
(* last bytes were read from the link: each ends in rxlog before the next  *)
(* one begins.                                                             *)
(***************************************************************************)
C7_IngressOrdering ==
  \A j, k \in 1..Len(core_rx) :
    j < k => core_rx[j].start + Len(core_rx[j].bytes) <= core_rx[k].start

\* two frames forwarded by two different invocations
C7_Witness ==
  /\ Len(core_rx) = 2
  /\ n_reads = 2
  /\ core_rx[2].start > 0

\* process_core has read a datagram and not yet returned
InProcessCore ==
  pc \in {"tiocoutq", "drain_sleep", "idle_sleep", "uart_write"}

(***************************************************************************)
(* C8: the messages written to the link are, in order, the datagrams read  *)
(* from the core channel; a datagram is read only when every datagram read *)
(* before has been written in full: while process_core runs exactly one    *)
(* datagram is read and unwritten, in the dispatcher none is.              *)
(***************************************************************************)
C8_EgressSerialization ==
  /\ Len(uart_tx) <= Len(core_read_log)
  /\ Len(core_read_log) <= Len(uart_tx) + 1
  /\ \A k \in 1..Len(uart_tx) :
       (k < Len(uart_tx) \/ pc # "fatal") => uart_tx[k] = core_read_log[k]
  /\ pc = "epoll_wait" => Len(uart_tx) = Len(core_read_log)
  /\ InProcessCore => Len(core_read_log) = Len(uart_tx) + 1

\* two different messages written, link reads in between
C8_Witness ==
  /\ Len(uart_tx) = 2
  /\ uart_tx[1] # uart_tx[2]
  /\ n_reads = 2
  /\ pc = "epoll_wait"

(***************************************************************************)
(* C9: the buffer holds, from offset 0 and in link order, exactly the      *)
(* bytes read from the link that were neither forwarded nor discarded;     *)
(* every byte read is in one and only one of: a forwarded frame, the       *)
(* discarded bytes, the buffer.  This as long as the thread has not ended  *)
(* in the FATAL of a short read, whose bytes stay in temp_buffer.          *)
(***************************************************************************)
C9_CompactionPartition ==
  last_fault # "read_short" =>
    /\ Len(fate) + buffer_head = Len(rxlog)
    /\ Len(buffer) = buffer_head
    /\ buffer = Slice(rxlog, Len(fate), buffer_head)
    /\ \A x \in 1..Len(fate) :
         Cardinality({k \in 1..Len(core_rx) : x \in FrameRange(k)})
           = IF fate[x] = "F" THEN 1 ELSE 0
    /\ \A k \in 1..Len(core_rx) :
         /\ FrameRange(k) \subseteq 1..Len(fate)
         /\ core_rx[k].bytes =
              Slice(rxlog, core_rx[k].start, Len(core_rx[k].bytes))

\* bytes of all three kinds: discarded, forwarded, still buffered
C9_Witness ==
  /\ \E x \in 1..Len(fate) : fate[x] = "D"
  /\ \E x \in 1..Len(fate) : fate[x] = "F"
  /\ buffer_head > 0
  /\ pc # "fatal"

(***************************************************************************)
(* C10: buffer_head stays within 0..UART_BUFFER_SIZE, and no invocation    *)
(* appends more bytes than the buffer had free at its entry.               *)
(***************************************************************************)
C10_BufferBound ==
  /\ buffer_head \in 0..UART_BUFFER_SIZE
  /\ [][/\ buffer_head' \in 0..UART_BUFFER_SIZE
        /\ Len(rxlog') - Len(rxlog) <= UART_BUFFER_SIZE - buffer_head]_vars

\* the buffer is full, after more bytes were read than it holds
C10_Witness ==
  /\ Len(rxlog) > UART_BUFFER_SIZE
  /\ buffer_head = UART_BUFFER_SIZE
  /\ pc # "fatal"

(***************************************************************************)
(* C11: whenever the ingress handler has returned to the dispatcher with   *)
(* the state EXPECTING_HEADER, at most header-size - 1 bytes are buffered, *)
(* whatever the link delivered, noise longer than the buffer included.     *)
(***************************************************************************)
C11_NoiseDoesNotAccumulate ==
  (pc = "epoll_wait" /\ state = EXPECTING_HEADER) =>
    buffer_head <= SLI_CPC_HDLC_HEADER_RAW_SIZE - 1

\* more noise than the buffer holds was read, none of it a header, and the
\* handler is back in the dispatcher with what a failed pass keeps
C11_Witness ==
  /\ pc = "epoll_wait"
  /\ state = EXPECTING_HEADER
  /\ Len(rxlog) > UART_BUFFER_SIZE
  /\ NoHeaderBefore(rxlog, Len(rxlog))
  /\ buffer_head = SLI_CPC_HDLC_HEADER_RAW_SIZE - 1

\* the values of last_fault that are a system call returning an error:
\* ioctl(FIONREAD), read(fd_uart), write(fd_core), read(fd_core),
\* the first ioctl(TIOCOUTQ), a later one, write(fd_uart)
IoCallErrors ==
  {"ioctl_err", "read_err", "write_core", "read_core", "TIOCOUTQ",
   "TIOCOUTQ_again", "write_uart"}

(***************************************************************************)
(* C12: once a system call of the handlers has returned an error, be it    *)
(* ioctl(FIONREAD), read or write on either descriptor, the first          *)
(* ioctl(TIOCOUTQ) or one of those of the drain loop, the thread is in     *)
(* the fatal state.                                                        *)
(***************************************************************************)
C12_IoErrorsAreFatal == last_fault \in IoCallErrors => pc = "fatal"

\* epoll_wait has returned with events at least once
Woken == wake.events # {}

(***************************************************************************)
(* C13 as stated: when the thread is back in epoll_wait, the callback of   *)
(* every source that was readable when epoll_wait last returned has been   *)
(* called for that return: of the link, of the core socket, of both when   *)
(* both were readable.                                                     *)
(***************************************************************************)
C13_EveryReadySourceHandled ==
  (Woken /\ pc = "epoll_wait") => wake.events = wake.ready

(***************************************************************************)
(* C13 amended: every return of epoll_wait reports one source, one of      *)
(* those readable then, and calls the callback of that source alone;       *)
(* while process_core runs, it is the callback of the last return, no      *)
(* other callback having been called since.                                *)
(***************************************************************************)
C13_OneReportedSourceHandled ==
  /\ Woken => /\ Cardinality(wake.events) = 1
              /\ wake.events \subseteq wake.ready
  /\ InProcessCore => wake.events = {"core"}

\* both sources were readable, the core socket was reported, its message
\* went out on the link and the thread is back in epoll_wait
C13_Witness ==
  /\ wake.ready = {"uart", "core"}
  /\ wake.events = {"core"}
  /\ pc = "epoll_wait"
  /\ Len(uart_tx) = Len(core_read_log)
  /\ Len(uart_tx) > 0

(***************************************************************************)
(* C14: an epoll_wait interrupted by a signal is followed by another       *)
(* epoll_wait, no callback being called and nothing of the driver's state  *)
(* changing; once epoll_wait has failed otherwise, or has returned with    *)
(* no event, the thread is in the fatal state; and from the fatal state    *)
(* no step is taken, so no callback is called.                             *)
(***************************************************************************)
C14_WaitOutcomes ==
  /\ [](last_fault \in {"epoll_wait", "epoll_wait_zero"} => pc = "fatal")
  /\ [][/\ (last_fault # "EINTR" /\ last_fault' = "EINTR") =>
             /\ pc = "epoll_wait"
             /\ pc' = "epoll_wait"
             /\ UNCHANGED <<ingress_vars, egress_vars, wake>>
        /\ pc # "fatal"]_vars

\* callbacks have run, then epoll_wait came back with no event
C14_Witness ==
  /\ last_fault = "epoll_wait_zero"
  /\ pc = "fatal"
  /\ Woken
  /\ n_reads > 0
  /\ Len(uart_tx) > 0

(***************************************************************************)
(* C15: the loop of the ingress handler, entered with whatever the reads   *)
(* have left in the buffer and in either state, is left again; a turn that *)
(* wrote a frame and goes on looping has made buffer_head strictly         *)
(* smaller; and a turn whose step reported no progress (the state is as it *)
(* was) is the last one of the invocation.                                 *)
(***************************************************************************)
C15_IngressLoopTerminates ==
  /\ [](pc = "loop" => <>(pc # "loop"))
  /\ [][(pc = "loop" /\ pc' = "loop" /\ Len(core_rx') > Len(core_rx)) =>
          buffer_head' < buffer_head]_vars
  /\ [][(pc = "loop" /\ state' = state) => pc' # "loop"]_vars

\* one invocation wrote two frames, in two turns of its loop, and returned
C15_Witness ==
  /\ pc = "epoll_wait"
  /\ n_reads = 1
  /\ Len(core_rx) = 2
  /\ buffer_head = 0

\* the step is a turn of the loop that synchronized on a header: one
\* validates at offset 0 of the buffer it leaves
TurnFoundHeader ==
  /\ pc = "loop"
  /\ buffer_head' >= SLI_CPC_HDLC_HEADER_RAW_SIZE
  /\ HeaderAt(buffer', 0)

\* the step is a turn of the loop that wrote one frame, the whole of it:
\* the header at offset 0 and the payload it announces
TurnWroteOneFrame ==
  /\ pc = "loop"
  /\ Len(core_rx') = Len(core_rx) + 1
  /\ SubSeq(core_rx', 1, Len(core_rx)) = core_rx
  /\ LET f == core_rx'[Len(core_rx')].bytes
     IN /\ Len(f) = SLI_CPC_HDLC_HEADER_RAW_SIZE + hdlc_get_length(buffer, 0)
        /\ Len(f) <= buffer_head
        /\ f = Take(buffer, Len(f))

\* the state changes as the machine allows, and only inside the loop
StateMachineSteps ==
  /\ (pc # "loop") => state' = state
  /\ (state = EXPECTING_HEADER /\ state' = EXPECTING_PAYLOAD)
       => TurnFoundHeader
  /\ (state = EXPECTING_PAYLOAD /\ state' = EXPECTING_HEADER)
       => TurnWroteOneFrame
  /\ core_rx' # core_rx => (state = EXPECTING_PAYLOAD /\ TurnWroteOneFrame)

\* the step ends an invocation that returns without having written a frame
ReturnsWithoutFrame ==
  /\ pc = "loop"
  /\ pc' = "epoll_wait"
  /\ Len(core_rx') = entry.frames

\* state, head and buffer are left as the read of the invocation left them
LeftAsRead ==
  /\ state' = entry.state
  /\ buffer' = entry.buffer
  /\ buffer_head' = Len(entry.buffer)

(***************************************************************************)
(* C16 as stated: the state starts as EXPECTING_HEADER and changes only    *)
(* inside the loop; from EXPECTING_HEADER to EXPECTING_PAYLOAD only in a   *)
(* turn that leaves a valid header at offset 0, back only in a turn that   *)
(* wrote exactly one whole frame, and no frame is written in               *)
(* EXPECTING_HEADER; and every invocation that returns without a full      *)
(* frame to write leaves the state, and the buffer with the bytes it has   *)
(* just appended, as they were.                                            *)
(***************************************************************************)
C16_StateMachineAnyEntry ==
  /\ state = EXPECTING_HEADER
  /\ [][StateMachineSteps]_vars
  /\ [][ReturnsWithoutFrame => LeftAsRead]_vars

(***************************************************************************)
(* C16 amended: the same, the last part for the invocations entered in     *)
(* EXPECTING_PAYLOAD.                                                      *)
(***************************************************************************)
C16_StateMachine ==
  /\ state = EXPECTING_HEADER
  /\ [][StateMachineSteps]_vars
  /\ [][(ReturnsWithoutFrame /\ entry.state = EXPECTING_PAYLOAD)
          => LeftAsRead]_vars

\* a header came first, its payload in a later read: the state went to
\* EXPECTING_PAYLOAD, stayed there over a read, and the frame was written
C16_Witness ==
  /\ pc = "epoll_wait"
  /\ n_reads = 2
  /\ state = EXPECTING_HEADER
  /\ Len(core_rx) = 1
  /\ Len(core_rx[1].bytes) > SLI_CPC_HDLC_HEADER_RAW_SIZE
  /\ buffer_head = 0

\* the step is an invocation of the ingress handler that returned to the
\* dispatcher, no call having failed
IngressReturned ==
  /\ pc = "epoll_wait"
  /\ pc' = "epoll_wait"
  /\ UNCHANGED <<egress_vars, last_fault>>

(***************************************************************************)
(* C17: an invocation of the ingress handler that returns to the           *)
(* dispatcher has read at least one byte from the link and appended it,    *)
(* whatever buffer_head was, UART_BUFFER_SIZE included.                    *)
(***************************************************************************)
C17_EveryReadAppends ==
  [][IngressReturned => Len(rxlog') > Len(rxlog)]_vars

(***************************************************************************)
(* C18: if the transmit queue of the UART is empty from some time on,      *)
(* every invocation of process_core ends: the thread is back in            *)
(* epoll_wait, its message written, or in the fatal state; the drain loop  *)
(* is left also after an ioctl(TIOCOUTQ) of the loop has failed.           *)
(***************************************************************************)
C18_EgressHandlerReturns ==
  <>[](tx_queue = 0) =>
    [](InProcessCore => <>(pc = "epoll_wait" \/ pc = "fatal"))

(***************************************************************************)
(* C19: whenever the state is EXPECTING_PAYLOAD, between invocations as    *)
(* well as when a turn of the loop enters the delimiting step, at least a  *)
(* header is buffered and the bytes at offset 0 are a header that          *)
(* validates; so the delimiting step never finds fewer bytes than a        *)
(* header.                                                                 *)
(***************************************************************************)
C19_HeaderAlignedWhileExpectingPayload ==
  state = EXPECTING_PAYLOAD =>
    /\ buffer_head >= SLI_CPC_HDLC_HEADER_RAW_SIZE
    /\ HeaderAt(buffer, 0)

\* bytes were discarded to reach the header, and a later read has brought
\* the thread to the delimiting step with more than the header buffered
C19_Witness ==
  /\ pc = "loop"
  /\ state = EXPECTING_PAYLOAD
  /\ entry.state = EXPECTING_PAYLOAD
  /\ n_reads = 2
  /\ fate # <<>>
  /\ buffer_head > SLI_CPC_HDLC_HEADER_RAW_SIZE

\* some invocation of the ingress handler, for some bytes the link may
\* deliver, changes buffer_head or the state
SomeInvocationChanges ==
  ENABLED (/\ driver_uart_process_uart(LongStream, MarkerOrZero)
           /\ (buffer_head' # buffer_head \/ state' # state))

(***************************************************************************)
(* C20: the synchronizer always gets on: the thread is never back in the   *)
(* dispatcher with the buffer full (so, a header at offset 0 still waiting *)
(* for its payload, whatever length it announces) and no invocation of     *)
(* the handler able to change buffer_head or the state, however long the   *)
(* link goes on delivering bytes.                                          *)
(***************************************************************************)
C20_IngressProgress ==
  (pc = "epoll_wait" /\ buffer_head = UART_BUFFER_SIZE)
    => SomeInvocationChanges

====
